---- MODULE Spec2Model ----
(***************************************************************************)
(* Master wells transformation: identifier normalisation, union by name,   *)
(* enrichment joins, table naming and the pipeline that composes them.     *)
(*                                                                         *)
(* Two families of code are modelled side by side:                         *)
(*   "pandas"   src/scripts/transform_master_wells_table.py                *)
(*   "snowpark" src/notebooks/master_wells_transform.py (and the older     *)
(*              src/master_wells_transform.py, notebooks/snowflake_...)    *)
(*                                                                         *)
(* A string is a sequence of one-character strings; a column name is a     *)
(* sequence of name tokens, so that "X" + "_env" is <<"X">> \o <<"_env">>. *)
(* A record set (DataFrame) is [cols, rows]: cols a sequence of column     *)
(* names, rows a sequence of rows, a row a sequence of cells aligned with  *)
(* cols.                                                                   *)
(***************************************************************************)
EXTENDS Integers, Sequences, FiniteSets, TLC

VARIABLES variant, heap, log,
          nm, nmRet,
          src, cfg, pc, cur, done, sink, writes, failed

vars == <<variant, heap, log, nm, nmRet,
          src, cfg, pc, cur, done, sink, writes, failed>>

dfVars == <<variant, heap, log>>
nameVars == <<nm, nmRet>>
pipeVars == <<src, cfg, pc, cur, done, sink, writes, failed>>

----------------------------------------------------------------------------
(* Bounds of the model *)

MaxIdLen == 15
MaxIdRows == 1
MaxCalls == 2

(* Width of the canonical identifier and of its two short forms *)
Width14 == 14
Width12 == 12
Width10 == 10

----------------------------------------------------------------------------
(* Values *)

\* SQL NULL / pandas NaN: a cell that is no string
NULL == <<"NULL">>

Variants == {"pandas", "snowpark"}

Min(a, b) == IF a < b THEN a ELSE b
Max(a, b) == IF a < b THEN b ELSE a

Digits == <<"1", "2", "3", "4", "5", "6", "7", "8", "9">>

\* the identifier of n characters whose digits start at k: no two prefixes
\* or suffixes of different lengths agree, and it holds no "0"
Str(n, k) == [i \in 1..n |-> Digits[((i + k) % 9) + 1]]

Zeros(n) == [i \in 1..n |-> "0"]

Take(s, n) == SubSeq(s, 1, Min(n, Len(s)))

\* column names
API14 == <<"API14">>
API12 == <<"API12">>
API10 == <<"API10">>
API == <<"API">>
APINumber == <<"APINumber">>
WELL_NAME == <<"WELL_NAME">>
WELL_NAME_UPPER == <<"WELL_NAME_UPPER">>

----------------------------------------------------------------------------
(* Record sets *)

RECURSIVE IndexOf(_, _, _)
\* position of name c in cols at or after i, 0 when absent
IndexOf(cols, c, i) ==
    IF i > Len(cols) THEN 0
    ELSE IF cols[i] = c THEN i ELSE IndexOf(cols, c, i + 1)

Pos(cols, c) == IndexOf(cols, c, 1)

HasCol(df, c) == Pos(df.cols, c) > 0

ColSet(df) == {df.cols[i] : i \in 1..Len(df.cols)}

Cell(df, r, c) == df.rows[r][Pos(df.cols, c)]

NRows(df) == Len(df.rows)

\* the positions of a sequence that satisfy no test: s without position p
RemoveAt(s, p) == [i \in 1..(Len(s) - 1) |-> IF i < p THEN s[i] ELSE s[i + 1]]

----------------------------------------------------------------------------
(* String functions of the two libraries *)

\* Series.astype(str): NaN becomes the string "nan"
astype_str(v) == IF v = NULL THEN <<"n", "a", "n">> ELSE v

\* a string that starts with a sign
Signed(v) == v # NULL /\ Len(v) > 0 /\ v[1] \in {"+", "-"}

\* mutant of zfill: the padding is put on the right
zfill_right(v, width) ==
    IF v = NULL THEN NULL
    ELSE IF Len(v) >= width THEN v
    ELSE v \o Zeros(width - Len(v))

\* Series.str.zfill(width), which applies str.zfill to each string: zeros
\* are put on the left, after a leading sign; a string of width or more
\* characters is kept as it is
zfill(v, width) ==
    IF v = NULL THEN NULL
    ELSE IF Len(v) >= width THEN v
    ELSE IF Signed(v) THEN <<v[1]>> \o Zeros(width - Len(v)) \o Tail(v)
    ELSE Zeros(width - Len(v)) \o v

\* Series.str[:n]
str_slice(v, n) == IF v = NULL THEN NULL ELSE Take(v, n)

\* snowflake.snowpark.functions.lpad(e, len, pad): SQL LPAD returns exactly
\* len characters: a longer base is cut to its first len characters
lpad(v, width, pad) ==
    IF v = NULL THEN NULL
    ELSE IF Len(v) >= width THEN SubSeq(v, 1, width)
    ELSE [i \in 1..(width - Len(v)) |-> pad] \o v

\* snowflake.snowpark.functions.substring(e, 1, n)
substring(v, n) == IF v = NULL THEN NULL ELSE Take(v, n)

----------------------------------------------------------------------------
(* Column assignment *)

\* pandas df[c] = vals: an existing column is replaced where it stands, a
\* new one is appended
setitem(df, c, vals) ==
    IF HasCol(df, c)
    THEN [cols |-> df.cols,
          rows |-> [r \in 1..NRows(df) |->
                      [df.rows[r] EXCEPT ![Pos(df.cols, c)] = vals[r]]]]
    ELSE [cols |-> Append(df.cols, c),
          rows |-> [r \in 1..NRows(df) |-> Append(df.rows[r], vals[r])]]

\* Snowpark DataFrame.with_column(c, vals): a new DataFrame; an existing
\* column of that name is dropped and the new one is appended
with_column(df, c, vals) ==
    IF HasCol(df, c)
    THEN [cols |-> Append(RemoveAt(df.cols, Pos(df.cols, c)), c),
          rows |-> [r \in 1..NRows(df) |->
                      Append(RemoveAt(df.rows[r], Pos(df.cols, c)), vals[r])]]
    ELSE [cols |-> Append(df.cols, c),
          rows |-> [r \in 1..NRows(df) |-> Append(df.rows[r], vals[r])]]

Column(df, c) == [r \in 1..NRows(df) |-> Cell(df, r, c)]

Ok(df) == [err |-> "", df |-> df]
Raise(e) == [err |-> e, df |-> [cols |-> <<>>, rows |-> <<>>]]

----------------------------------------------------------------------------
(* Identifier normaliser *)

\* which column API14 is taken from: the first of API14, API, APINumber
\* that the record set has; <<>> when it has none
IdSource(df) ==
    IF HasCol(df, API14) THEN API14
    ELSE IF HasCol(df, API) THEN API
    ELSE IF HasCol(df, APINumber) THEN APINumber
    ELSE <<>>

\* mutant of pandas_api14: APINumber is looked for before API
pandas_api14_apinumber_first(df) ==
    IF ~HasCol(df, API14)
    THEN IF HasCol(df, APINumber)
         THEN Ok(setitem(df, API14,
                 [r \in 1..NRows(df) |->
                    zfill(astype_str(Cell(df, r, APINumber)), Width14)]))
         ELSE IF HasCol(df, API)
         THEN Ok(setitem(df, API14,
                 [r \in 1..NRows(df) |->
                    zfill(astype_str(Cell(df, r, API)), Width14)]))
         ELSE Raise("KeyError")
    ELSE Ok(df)

\* scripts/transform_master_wells_table.py: lines 11-17, the API14 column
pandas_api14(df) ==
    IF ~HasCol(df, API14)
    THEN IF HasCol(df, API)
         THEN Ok(setitem(df, API14,
                 [r \in 1..NRows(df) |->
                    zfill(astype_str(Cell(df, r, API)), Width14)]))
         ELSE IF HasCol(df, APINumber)
         THEN Ok(setitem(df, API14,
                 [r \in 1..NRows(df) |->
                    zfill(astype_str(Cell(df, r, APINumber)), Width14)]))
         ELSE Raise("KeyError")
    ELSE Ok(df)

\* scripts/transform_master_wells_table.py: generate_api_columns
pandas_generate_api_columns(df) ==
    LET a == pandas_api14(df) IN
    IF a.err # "" THEN a
    ELSE LET d12 == setitem(a.df, API12,
                      [r \in 1..NRows(a.df) |->
                         str_slice(Cell(a.df, r, API14), Width12)])
             d10 == setitem(d12, API10,
                      [r \in 1..NRows(d12) |->
                         str_slice(Cell(d12, r, API14), Width10)])
         IN Ok(d10)

\* notebooks/master_wells_transform.py: lines 8-14, the API14 column
snowpark_api14(df) ==
    IF ~HasCol(df, API14)
    THEN IF HasCol(df, API)
         THEN Ok(with_column(df, API14,
                 [r \in 1..NRows(df) |-> lpad(Cell(df, r, API), Width14, "0")]))
         ELSE IF HasCol(df, APINumber)
         THEN Ok(with_column(df, API14,
                 [r \in 1..NRows(df) |->
                    lpad(Cell(df, r, APINumber), Width14, "0")]))
         ELSE Raise("KeyError")
    ELSE Ok(df)

\* notebooks/master_wells_transform.py: generate_api_columns
snowpark_generate_api_columns(df) ==
    LET a == snowpark_api14(df) IN
    IF a.err # "" THEN a
    ELSE LET d12 == with_column(a.df, API12,
                      [r \in 1..NRows(a.df) |->
                         substring(Cell(a.df, r, API14), Width12)])
             d10 == with_column(d12, API10,
                      [r \in 1..NRows(d12) |->
                         substring(Cell(d12, r, API14), Width10)])
         IN Ok(d10)

----------------------------------------------------------------------------
(* Calls: the caller holds record sets in a heap of objects; a call names  *)
(* its arguments by object, and returns an object.  call.input keeps the   *)
(* arguments' contents as they were when the call was made.                *)

NoCall == [op |-> "none", args |-> <<>>, input |-> <<>>, ret |-> 0, err |-> ""]

\* the last call made
call == IF log = <<>> THEN NoCall ELSE log[Len(log)]

\* the log with one more call: its arguments, their contents now, and the
\* object returned (0: none) or the error raised
Logged(op, args, ret, err) ==
    Append(log, [op |-> op, args |-> args,
                 input |-> [i \in 1..Len(args) |-> heap[args[i]]],
                 ret |-> ret, err |-> err])

\* the pandas normaliser assigns into the caller's DataFrame and returns it;
\* the Snowpark one builds new DataFrames
generate_api_columns(a) ==
    /\ Len(log) < MaxCalls
    /\ a \in {1, Len(heap)}
    /\ call.err = ""
    /\ variant' = variant
    /\ IF variant = "pandas"
       THEN LET res == pandas_generate_api_columns(heap[a]) IN
            IF res.err # ""
            THEN /\ heap' = heap
                 /\ log' = Logged("generate_api_columns", <<a>>, 0, res.err)
            ELSE /\ heap' = [heap EXCEPT ![a] = res.df]
                 /\ log' = Logged("generate_api_columns", <<a>>, a, "")
       ELSE LET res == snowpark_generate_api_columns(heap[a]) IN
            IF res.err # ""
            THEN /\ heap' = heap
                 /\ log' = Logged("generate_api_columns", <<a>>, 0, res.err)
            ELSE /\ heap' = Append(heap, res.df)
                 /\ log' = Logged("generate_api_columns", <<a>>,
                                  Len(heap) + 1, "")
    /\ UNCHANGED <<nameVars, pipeVars>>

(* Inputs of the normaliser *)

RECURSIVE PickFrom(_, _, _)
\* the members of seq whose positions are in S, in order, from position i
PickFrom(seq, S, i) ==
    IF i > Len(seq) THEN <<>>
    ELSE (IF i \in S THEN <<seq[i]>> ELSE <<>>) \o PickFrom(seq, S, i + 1)

Pick(seq, S) == PickFrom(seq, S, 1)

NormCols == <<API, APINumber, API14, API12, WELL_NAME>>

\* an identifier of n characters (n = -1: null), with a minus sign for its
\* first character when sg
Ident(n, k, sg) ==
    IF n < 0 THEN NULL
    ELSE IF sg /\ n > 0 THEN <<"-">> \o Str(n - 1, k)
    ELSE Str(n, k)

\* a cell of column c in a row whose identifiers have n characters; API12
\* holds a stale value
NormCell(c, n, sg) ==
    IF c = API THEN Ident(n, 0, sg)
    ELSE IF c = APINumber THEN Ident(n, 3, sg)
    ELSE IF c = API14 THEN Ident(n, 6, sg)
    ELSE IF c = API12 THEN <<"9", "9">>
    ELSE <<"w">>

NormInputs ==
    { [cols |-> Pick(NormCols, S),
       rows |-> [r \in 1..k |->
                   [i \in 1..Len(Pick(NormCols, S)) |->
                      NormCell(Pick(NormCols, S)[i], lens[r], sg)]]] :
        S \in SUBSET (1..Len(NormCols)),
        k \in 1..MaxIdRows,
        lens \in [1..MaxIdRows -> -1..MaxIdLen],
        sg \in BOOLEAN }

NameIdle == /\ nm = <<>> /\ nmRet = <<>>
PipeIdle == /\ src = <<>> /\ cfg = <<>> /\ pc = "idle" /\ cur = <<>>
            /\ done = {} /\ sink = {} /\ writes = 0 /\ failed = FALSE

InitNorm ==
    /\ variant \in Variants
    /\ \E d \in NormInputs : heap = <<d>>
    /\ log = <<>>
    /\ NameIdle
    /\ PipeIdle

NextNorm == \E a \in 1..Len(heap) : generate_api_columns(a)

SpecNorm == InitNorm /\ [][NextNorm]_vars

----------------------------------------------------------------------------
(* Enrichment joins *)

MaxDup == 2
MaxJoinCalls == 4

X == <<"X">>
Y == <<"Y">>
Z == <<"Z">>

Suffixed(c, sfx) == c \o <<sfx>>

Count(s, v) == Cardinality({i \in 1..Len(s) : s[i] = v})

HasDup(s) == \E i, j \in 1..Len(s) : i < j /\ s[i] = s[j]

\* whether two join keys match: pandas matches NaN with NaN, SQL equality
\* is never true of NULL
KeyMatch(v, a, b) == a = b /\ (v = "pandas" \/ a # NULL)

\* mutant of MatchRows: only the first matching right row is joined
MatchRows_first(v, k, rrows, rk) ==
    LET ms == SelectSeq(rrows, LAMBDA x : KeyMatch(v, k, x[rk]))
    IN IF ms = <<>> THEN <<>> ELSE <<ms[1]>>

\* the right rows that match left key k, in order
MatchRows(v, k, rrows, rk) ==
    SelectSeq(rrows, LAMBDA x : KeyMatch(v, k, x[rk]))

RECURSIVE LeftJoinRows(_, _, _, _, _, _, _)
\* how = "left": each left row from the i-th on, once per matching right
\* row, or once with nulls for the right cells when none matches; of a
\* right row the cells at positions keep are added
LeftJoinRows(v, lrows, lk, rrows, rk, keep, i) ==
    IF i > Len(lrows) THEN <<>>
    ELSE LET ms == MatchRows(v, lrows[i][lk], rrows, rk)
             here == IF ms = <<>>
                     THEN << lrows[i] \o [j \in 1..Len(keep) |-> NULL] >>
                     ELSE [m \in 1..Len(ms) |->
                             lrows[i] \o [j \in 1..Len(keep) |->
                                            ms[m][keep[j]]]]
         IN here \o LeftJoinRows(v, lrows, lk, rrows, rk, keep, i + 1)

\* DataFrame.merge(right, on='API14', how='left', suffixes=(None, sfx)):
\* the key appears once; of the other right columns only those whose name a
\* left column has get the suffix
pandas_merge(left, right, sfx) ==
    IF ~HasCol(left, API14) \/ ~HasCol(right, API14) THEN Raise("KeyError")
    ELSE LET lk == Pos(left.cols, API14)
             rk == Pos(right.cols, API14)
             keep == RemoveAt([i \in 1..Len(right.cols) |-> i], rk)
             named == [j \in 1..Len(keep) |->
                         IF right.cols[keep[j]] \in ColSet(left)
                         THEN Suffixed(right.cols[keep[j]], sfx)
                         ELSE right.cols[keep[j]]]
         IN IF HasDup(named) /\ ~HasDup(right.cols) THEN Raise("MergeError")
            ELSE Ok([cols |-> left.cols \o named,
                     rows |-> LeftJoinRows("pandas", left.rows, lk,
                                           right.rows, rk, keep, 1)])

\* scripts/transform_master_wells_table.py: join_env_columns
pandas_join_env_columns(df, env_df) == pandas_merge(df, env_df, "_env")

\* scripts/transform_master_wells_table.py: join_rbc_columns
pandas_join_rbc_columns(df, rbc_df) == pandas_merge(df, rbc_df, "_rbc")

\* S.select([col(c).alias(c if c == "API14" else c + sfx) for c in columns])
snowpark_select_alias(S, sfx) ==
    [cols |-> [i \in 1..Len(S.cols) |->
                 IF S.cols[i] = API14 THEN S.cols[i]
                 ELSE Suffixed(S.cols[i], sfx)],
     rows |-> S.rows]

\* df["API14"]: the column must resolve to exactly one column of df
Resolves(df, c) == Count(df.cols, c) = 1

\* df.join(right, df["API14"] == right["API14"], how="left"): both sides'
\* columns are kept, and a name both sides have (API14 among them) is given
\* a generated prefix on each side
snowpark_join(left, right) ==
    IF ~Resolves(left, API14) \/ ~Resolves(right, API14)
    THEN Raise("SnowparkColumnException")
    ELSE LET common == ColSet(left) \cap ColSet(right)
             lcols == [i \in 1..Len(left.cols) |->
                         IF left.cols[i] \in common
                         THEN <<"l_">> \o left.cols[i] ELSE left.cols[i]]
             rcols == [i \in 1..Len(right.cols) |->
                         IF right.cols[i] \in common
                         THEN <<"r_">> \o right.cols[i] ELSE right.cols[i]]
         IN Ok([cols |-> lcols \o rcols,
                rows |-> LeftJoinRows("snowpark", left.rows,
                                      Pos(left.cols, API14), right.rows,
                                      Pos(right.cols, API14),
                                      [i \in 1..Len(right.cols) |-> i], 1)])

\* notebooks/master_wells_transform.py: join_env_columns
snowpark_join_env_columns(df, env_df) ==
    snowpark_join(df, snowpark_select_alias(env_df, "_env"))

\* notebooks/master_wells_transform.py: join_rbc_columns
snowpark_join_rbc_columns(df, rbc_df) ==
    snowpark_join(df, snowpark_select_alias(rbc_df, "_rbc"))

\* a call of a join, made once for given arguments: both variants return a
\* new object or raise.  As in main(), each join is applied once to a
\* record set: to the base, or to what the other join made of the base.
JoinCall(op, a, b, res) ==
    /\ Len(log) < MaxJoinCalls
    /\ call.err = ""
    /\ \A i \in 1..Len(log) : ~(log[i].op = op /\ log[i].args = <<a, b>>)
    /\ \/ a = 1
       \/ \E i \in 1..Len(log) :
             log[i].ret = a /\ log[i].op # op /\ log[i].args[1] = 1
    /\ variant' = variant
    /\ IF res.err # ""
       THEN /\ heap' = heap
            /\ log' = Logged(op, <<a, b>>, 0, res.err)
       ELSE /\ heap' = Append(heap, res.df)
            /\ log' = Logged(op, <<a, b>>, Len(heap) + 1, "")
    /\ UNCHANGED <<nameVars, pipeVars>>

join_env_columns(a, b) ==
    JoinCall("join_env_columns", a, b,
             IF variant = "pandas"
             THEN pandas_join_env_columns(heap[a], heap[b])
             ELSE snowpark_join_env_columns(heap[a], heap[b]))

join_rbc_columns(a, b) ==
    JoinCall("join_rbc_columns", a, b,
             IF variant = "pandas"
             THEN pandas_join_rbc_columns(heap[a], heap[b])
             ELSE snowpark_join_rbc_columns(heap[a], heap[b]))

(* Inputs of the joins: object 1 is the base, 2 the environmental set, 3   *)
(* the overrides.  K1 and K2 are two identifiers.                          *)

K1 == <<"7">>
K2 == <<"8">>

\* a cell that tells its table, column and row
Datum(t, c, r) == <<t>> \o c \o <<Digits[((r - 1) % 9) + 1]>>

\* the record set of table t with columns cols and the keys given
Table(t, cols, keys) ==
    [cols |-> cols,
     rows |-> [r \in 1..Len(keys) |->
                 [i \in 1..Len(cols) |->
                    IF cols[i] = API14 THEN keys[r]
                    ELSE Datum(t, cols[i], r)]]]

OptNull(b) == IF b THEN <<NULL>> ELSE <<>>

BaseColumns == {<<API14>>, <<X, API14>>, <<API14, X, Suffixed(X, "_env")>>,
                <<X>>}
EnvColumns == {<<API14>>, <<API14, X>>, <<X, API14, Y>>, <<Y>>}
RbcColumns == {<<API14>>, <<API14, X>>, <<API14, Z>>}

\* the base has a row for K1, a row for K2 and perhaps one with a null key
BaseInputs ==
    {Table("b", cols, <<K1, K2>> \o OptNull(n)) :
        cols \in BaseColumns, n \in BOOLEAN}

\* a secondary set has m rows for K1, none for K2, perhaps a null key
EnvInputs ==
    {Table("e", cols, [i \in 1..m |-> K1] \o OptNull(n)) :
        cols \in EnvColumns, m \in 0..MaxDup, n \in BOOLEAN}

RbcInputs ==
    {Table("r", cols, [i \in 1..m |-> K1]) :
        cols \in RbcColumns, m \in 0..MaxDup}

InitJoin ==
    /\ variant \in Variants
    /\ \E b \in BaseInputs, e \in EnvInputs, r \in RbcInputs :
          heap = <<b, e, r>>
    /\ log = <<>>
    /\ NameIdle
    /\ PipeIdle

NextJoin ==
    \/ \E a \in 1..Len(heap) : join_env_columns(a, 2)
    \/ \E a \in 1..Len(heap) : join_rbc_columns(a, 3)

SpecJoin == InitJoin /\ [][NextJoin]_vars

----------------------------------------------------------------------------
(* Union by name *)

MaxUnionRows == 2
MaxUnionCalls == 2

DEPTH == <<"DEPTH">>

RECURSIVE DistinctFrom(_, _)
\* the rows of s from the i-th on that no earlier row equals
DistinctFrom(s, i) ==
    IF i > Len(s) THEN <<>>
    ELSE (IF \E j \in 1..(i - 1) : s[j] = s[i] THEN <<>> ELSE <<s[i]>>)
         \o DistinctFrom(s, i + 1)

\* SQL UNION: duplicate rows are removed
Distinct(s) == DistinctFrom(s, 1)

\* DataFrame.union_by_name(other): both sides must have the same column
\* names; the other side's cells are matched to this side's columns by
\* name, and the result excludes duplicate rows
union_by_name(df1, df2) ==
    IF Len(df1.cols) # Len(df2.cols) \/ ColSet(df1) # ColSet(df2)
    THEN Raise("SnowparkClientException")
    ELSE Ok([cols |-> df1.cols,
             rows |-> Distinct(df1.rows \o
                        [r \in 1..NRows(df2) |->
                           [i \in 1..Len(df1.cols) |->
                              Cell(df2, r, df1.cols[i])]])])

\* master_wells_transform.py, notebooks/snowflake_transform.py: union_tables
union_tables(a, b) ==
    /\ Len(log) < MaxUnionCalls
    /\ call.err = ""
    /\ variant' = variant
    /\ LET res == union_by_name(heap[a], heap[b]) IN
       IF res.err # ""
       THEN /\ heap' = heap
            /\ log' = Logged("union_tables", <<a, b>>, 0, res.err)
       ELSE /\ heap' = Append(heap, res.df)
            /\ log' = Logged("union_tables", <<a, b>>, Len(heap) + 1, "")
    /\ UNCHANGED <<nameVars, pipeVars>>

(* Inputs of the union: a row is told by its key, so that two record sets  *)
(* can hold the same row.                                                  *)

KeyedTable(cols, keys) ==
    [cols |-> cols,
     rows |-> [r \in 1..Len(keys) |->
                 [i \in 1..Len(cols) |->
                    IF cols[i] = API14 THEN keys[r]
                    ELSE cols[i] \o keys[r]]]]

UnionColumns == {<<API14, WELL_NAME>>, <<WELL_NAME, API14>>, <<API14, DEPTH>>,
                 <<API14>>}

KeySeqs(n) == UNION {[1..k -> {K1, K2}] : k \in 0..n}

UnionInputs ==
    {KeyedTable(cols, keys) :
        cols \in UnionColumns, keys \in KeySeqs(MaxUnionRows)}

InitUnion ==
    /\ variant = "snowpark"
    /\ \E A \in UnionInputs, B \in UnionInputs : heap = <<A, B>>
    /\ log = <<>>
    /\ NameIdle
    /\ PipeIdle

NextUnion == \E a, b \in 1..Len(heap) : union_tables(a, b)

SpecUnion == InitUnion /\ [][NextUnion]_vars

----------------------------------------------------------------------------
(* Table names *)

MaxNameLen == 2

\* Python truth of an optional string: None and "" are false
Truthy(x) == x # NULL /\ x # <<>>

Dot == <<".">>

\* master_wells_transform.py: build_table_name
build_table_name_root(table, database, schema) ==
    IF Truthy(database) /\ Truthy(schema)
    THEN database \o Dot \o schema \o Dot \o table
    ELSE IF Truthy(schema) THEN schema \o Dot \o table
    ELSE table

\* mutant of build_table_name_unified: a database given without a schema
\* is put before the table
build_table_name_database_only(table, database, schema) ==
    IF Truthy(database) /\ Truthy(schema)
    THEN database \o Dot \o schema \o Dot \o table
    ELSE IF Truthy(schema) THEN schema \o Dot \o table
    ELSE IF Truthy(database) THEN database \o Dot \o table
    ELSE table

\* notebooks/master_wells_transform.py: build_table_name
build_table_name_unified(table, database, schema) ==
    IF Truthy(database) /\ Truthy(schema)
    THEN database \o Dot \o schema \o Dot \o table
    ELSE IF Truthy(schema) THEN schema \o Dot \o table
    ELSE table

\* notebooks/snowflake_transform.py: build_table_name
build_table_name_snowflake(table, database, schema) ==
    IF Truthy(database) /\ Truthy(schema)
    THEN database \o Dot \o schema \o Dot \o table
    ELSE IF Truthy(schema) THEN schema \o Dot \o table
    ELSE table

NameModules == {"root", "unified", "snowflake"}

build_table_name(m) ==
    /\ m \notin DOMAIN nmRet
    /\ nmRet' = nmRet @@ (m :>
          IF m = "root"
          THEN build_table_name_root(nm.table, nm.database, nm.schema)
          ELSE IF m = "unified"
          THEN build_table_name_unified(nm.table, nm.database, nm.schema)
          ELSE build_table_name_snowflake(nm.table, nm.database, nm.schema))
    /\ nm' = nm
    /\ UNCHANGED <<dfVars, pipeVars>>

Word(ch, n) == [i \in 1..n |-> ch]

InitName ==
    /\ \E t \in 1..MaxNameLen, d, sc \in -1..MaxNameLen :
          nm = [table |-> Word("t", t),
                database |-> IF d < 0 THEN NULL ELSE Word("d", d),
                schema |-> IF sc < 0 THEN NULL ELSE Word("s", sc)]
    /\ nmRet = <<>>
    /\ variant = "snowpark"
    /\ heap = <<>>
    /\ log = <<>>
    /\ PipeIdle

NextName ==
    \/ build_table_name("root")
    \/ build_table_name("unified")
    \/ build_table_name("snowflake")

SpecName == InitName /\ [][NextName]_vars

----------------------------------------------------------------------------
(* The pipeline: main() of the script and of the unified notebook module   *)

EmptyDF == [cols |-> <<>>, rows |-> <<>>]

\* a table of the source: there or not
Present(df) == [exists |-> TRUE, df |-> df]
Missing == [exists |-> FALSE, df |-> EmptyDF]

UpperCh(ch) == IF ch = "w" THEN "W" ELSE ch

\* snowflake.snowpark.functions.upper
upper(v) == IF v = NULL THEN NULL ELSE [i \in 1..Len(v) |-> UpperCh(v[i])]

\* the stages of main(), in the order the code runs them
Stages(v) ==
    IF v = "pandas"
    THEN <<"load", "normalize", "join_env", "join_rbc", "save">>
    ELSE <<"load", "union", "normalize", "derive", "join_env", "join_rbc",
           "save">>

NextStage(v, stage) ==
    LET i == CHOOSE k \in 1..Len(Stages(v)) : Stages(v)[k] = stage
    IN IF i = Len(Stages(v)) THEN "done" ELSE Stages(v)[i + 1]

\* mutant of Advance: the exception of a stage is swallowed
Advance_swallow(stage, err) == NextStage(variant, stage)

\* where control goes after a stage: an exception leaves main()
Advance(stage, err) ==
    IF err # "" THEN "aborted" ELSE NextStage(variant, stage)

\* a stage that computed res for the running record set
Step(stage, res) ==
    /\ pc = stage
    /\ pc' = Advance(stage, res.err)
    /\ failed' = (failed \/ res.err # "")
    /\ done' = IF res.err # "" THEN done ELSE done \cup {stage}
    /\ cur' = IF res.err # "" THEN cur
              ELSE [cur EXCEPT !.combined = Present(res.df)]
    /\ UNCHANGED <<src, cfg, sink, writes, dfVars, nameVars>>

\* pd.read_csv raises when the file is not there; session.table only names
\* the table, which is looked up when its columns are first needed
Load ==
    /\ pc = "load"
    /\ LET err == IF /\ variant = "pandas"
                     /\ ~(src.master.exists /\ src.env.exists
                            /\ src.rbc.exists)
                  THEN "FileNotFoundError" ELSE ""
       IN /\ pc' = Advance("load", err)
          /\ failed' = (failed \/ err # "")
          /\ done' = IF err # "" THEN done ELSE done \cup {"load"}
          /\ cur' = IF err # "" THEN cur
                    ELSE [combined |-> src.master, env_df |-> src.env,
                          rbc_df |-> src.rbc]
    /\ UNCHANGED <<src, cfg, sink, writes, dfVars, nameVars>>

\* a Snowpark operation on tables: it fails when one of them does not exist
OnTables(tables, res) ==
    IF \E i \in 1..Len(tables) : ~tables[i].exists
    THEN Raise("SnowparkSQLException") ELSE res

\* notebooks/master_wells_transform.py line 55
Union ==
    Step("union", OnTables(<<cur.combined, cur.env_df>>,
                           union_by_name(cur.combined.df, cur.env_df.df)))

\* scripts line 41, notebooks line 56
Normalize ==
    Step("normalize",
         IF variant = "pandas"
         THEN pandas_generate_api_columns(cur.combined.df)
         ELSE OnTables(<<cur.combined>>,
                       snowpark_generate_api_columns(cur.combined.df)))

\* notebooks line 57: WELL_NAME_UPPER = upper(WELL_NAME); a missing
\* WELL_NAME is reported when the columns are next resolved, which the
\* stage that follows does
Derive ==
    Step("derive",
         IF ~HasCol(cur.combined.df, WELL_NAME)
         THEN Raise("SnowparkSQLException")
         ELSE Ok(with_column(cur.combined.df, WELL_NAME_UPPER,
                    [r \in 1..NRows(cur.combined.df) |->
                       upper(Cell(cur.combined.df, r, WELL_NAME))])))

\* scripts line 42, notebooks line 58
JoinEnv ==
    Step("join_env",
         IF variant = "pandas"
         THEN pandas_join_env_columns(cur.combined.df, cur.env_df.df)
         ELSE OnTables(<<cur.combined, cur.env_df>>,
                 snowpark_join_env_columns(cur.combined.df, cur.env_df.df)))

\* scripts line 43, notebooks line 59
JoinRbc ==
    Step("join_rbc",
         IF variant = "pandas"
         THEN pandas_join_rbc_columns(cur.combined.df, cur.rbc_df.df)
         ELSE OnTables(<<cur.combined, cur.rbc_df>>,
                 snowpark_join_rbc_columns(cur.combined.df, cur.rbc_df.df)))

CsvPath == <<"outputs/master_wells_table_transformed.csv">>

\* the name the output is written under
TargetName(v, c) ==
    IF v = "pandas" THEN CsvPath
    ELSE build_table_name_unified(c.output_table, c.database, c.schema)

\* mode="overwrite" (to_csv likewise): what was stored under the name is
\* replaced by the record set
Overwrite(store, name, df) ==
    {e \in store : e.name # name} \cup {[name |-> name, df |-> df]}

\* scripts lines 45-47, notebooks lines 74-75
Materialize ==
    /\ pc = "save"
    /\ sink' = Overwrite(sink, TargetName(variant, cfg), cur.combined.df)
    /\ writes' = writes + 1
    /\ done' = done \cup {"save"}
    /\ pc' = NextStage(variant, "save")
    /\ UNCHANGED <<src, cfg, cur, failed, dfVars, nameVars>>

(* Inputs of the pipeline *)

\* a table of the source: identifiers are K1, K2, ... in API and their
\* 14-character form in API14
PipeTable(t, cols, keys) ==
    [cols |-> cols,
     rows |-> [r \in 1..Len(keys) |->
                 [i \in 1..Len(cols) |->
                    IF cols[i] = API14
                    THEN Zeros(Width14 - Len(keys[r])) \o keys[r]
                    ELSE IF cols[i] = API THEN keys[r]
                    ELSE IF cols[i] = WELL_NAME THEN <<"w">> \o keys[r]
                    ELSE Datum(t, cols[i], r)]]]

MasterTables ==
    {Missing} \cup
    {Present(PipeTable("m", cols, <<K1, K2>>)) :
        cols \in {<<API, WELL_NAME>>, <<API14, WELL_NAME>>, <<WELL_NAME>>,
                  <<API14, X>>}}

EnvTables ==
    {Missing} \cup
    {Present(PipeTable("e", cols, <<K1>>)) :
        cols \in {<<API14, WELL_NAME>>, <<API14, X>>, <<API, WELL_NAME>>}}

RbcTables ==
    {Missing} \cup
    {Present(PipeTable("r", cols, <<K1, K1>>)) :
        cols \in {<<API14, Z>>, <<Z>>}}

OutputTable == <<"MASTER_WELLS_TABLE_TRANSFORMED">>

\* what an earlier run left under the output's name
OldOutput == PipeTable("o", <<API14>>, <<K2>>)

InitPipe ==
    /\ variant \in Variants
    /\ src \in [master : MasterTables, env : EnvTables, rbc : RbcTables]
    /\ cfg \in [database : {NULL, <<"D">>}, schema : {NULL, <<"S">>},
                output_table : {OutputTable}, prior : BOOLEAN]
    /\ pc = "load"
    /\ cur = [combined |-> Missing, env_df |-> Missing, rbc_df |-> Missing]
    /\ done = {}
    /\ sink = IF cfg.prior
              THEN {[name |-> TargetName(variant, cfg), df |-> OldOutput]}
              ELSE {}
    /\ writes = 0
    /\ failed = FALSE
    /\ heap = <<>>
    /\ log = <<>>
    /\ NameIdle

NextPipe ==
    \/ Load
    \/ Union
    \/ Normalize
    \/ Derive
    \/ JoinEnv
    \/ JoinRbc
    \/ Materialize

SpecPipe == InitPipe /\ [][NextPipe]_vars

----------------------------------------------------------------------------
(* Properties of the identifier normaliser, checked under SpecNorm *)

Returned(op) == call.op = op /\ call.err = ""

NormIn == call.input[1]
NormOut == heap[call.ret]

EndsWith(s, t) ==
    /\ Len(t) <= Len(s)
    /\ SubSeq(s, Len(s) - Len(t) + 1, Len(s)) = t

\* the text of a raw identifier as the variant reads it
RawText(v, x) == IF v = "pandas" THEN astype_str(x) ELSE x

\* out was built from the raw identifier x: it is null with x, or it ends
\* with the characters of x that fit in it (a sign of x may have been moved
\* to the front)
DerivedFrom(v, out, x) ==
    IF RawText(v, x) = NULL THEN out = NULL
    ELSE /\ out # NULL
         /\ LET t == Take(RawText(v, x), Len(out)) IN
            \/ EndsWith(out, t)
            \/ Signed(t) /\ out[1] = t[1] /\ EndsWith(out, Tail(t))

FirstChars(v, n) == IF v = NULL THEN NULL ELSE Take(v, n)

\* C1: the source of API14 is chosen by priority API14, API, APINumber: an
\* existing API14 column is returned unchanged, otherwise API14 is derived
\* from API, otherwise from APINumber, and with none of the three the call
\* raises the missing-identifier error and returns no record set.
C1_SourcePriority ==
    call.op = "generate_api_columns" =>
        IF HasCol(NormIn, API14)
        THEN /\ call.err = ""
             /\ Column(NormOut, API14) = Column(NormIn, API14)
        ELSE IF HasCol(NormIn, API)
        THEN /\ call.err = ""
             /\ \A r \in 1..NRows(NormIn) :
                   DerivedFrom(variant, Cell(NormOut, r, API14),
                               Cell(NormIn, r, API))
        ELSE IF HasCol(NormIn, APINumber)
        THEN /\ call.err = ""
             /\ \A r \in 1..NRows(NormIn) :
                   DerivedFrom(variant, Cell(NormOut, r, API14),
                               Cell(NormIn, r, APINumber))
        ELSE /\ call.err = "KeyError"
             /\ call.ret = 0

\* a call on a record set with both API and APINumber and no API14, whose
\* identifiers are not empty, has returned
C1_Witness ==
    /\ Returned("generate_api_columns")
    /\ ~HasCol(NormIn, API14)
    /\ HasCol(NormIn, API)
    /\ HasCol(NormIn, APINumber)
    /\ Cell(NormIn, 1, API) # NULL
    /\ Len(Cell(NormIn, 1, API)) > 2
    /\ ~Signed(Cell(NormIn, 1, API))
    /\ Cell(NormIn, 1, API) # Cell(NormIn, 1, APINumber)

\* the raw identifier of row r: the cell of the column API14 is taken from
RawId(df, r) == Cell(df, r, IdSource(df))

\* its text: an API14 column is read as it is, API and APINumber through
\* the variant's conversion to text
RawIdText(v, df, r) ==
    IF HasCol(df, API14) THEN RawId(df, r) ELSE RawText(v, RawId(df, r))

Padded14(x) == Zeros(Width14 - Len(x)) \o x

ShortFormsOf(out, r) ==
    /\ Cell(out, r, API12) = FirstChars(Cell(out, r, API14), Width12)
    /\ Cell(out, r, API10) = FirstChars(Cell(out, r, API14), Width10)

\* C2 as stated: every row whose raw identifier x (from whichever of API14,
\* API, APINumber is used) has at most 14 characters gets API14 = x padded
\* with "0" on the left to exactly 14 characters, and API12, API10 are the
\* first 12 and 10 characters of API14.
C2_Original ==
    Returned("generate_api_columns") =>
        \A r \in 1..NRows(NormIn) :
            LET x == RawIdText(variant, NormIn, r) IN
            (x # NULL /\ Len(x) <= Width14) =>
                /\ Cell(NormOut, r, API14) = Padded14(x)
                /\ Len(Cell(NormOut, r, API14)) = Width14
                /\ ShortFormsOf(NormOut, r)

\* C2 amended: the padding holds for every row whose identifier x is taken
\* from API, or failing that APINumber, of an input without an API14 column,
\* when x is not null and does not start with a sign; an API14 column
\* already there is kept as it is, whatever its length.  In both cases API12
\* and API10 are the first 12 and 10 characters of API14 (null with it),
\* replacing whatever the input held in those columns.
C2_PaddedWhenDerived ==
    Returned("generate_api_columns") =>
        \A r \in 1..NRows(NormIn) :
            LET x == RawIdText(variant, NormIn, r) IN
            /\ (/\ ~HasCol(NormIn, API14)
                /\ x # NULL
                /\ ~Signed(x)
                /\ Len(x) <= Width14) =>
                  /\ Cell(NormOut, r, API14) = Padded14(x)
                  /\ Len(Cell(NormOut, r, API14)) = Width14
            /\ HasCol(NormIn, API14) =>
                  Cell(NormOut, r, API14) = Cell(NormIn, r, API14)
            /\ ShortFormsOf(NormOut, r)

\* a short identifier was padded, and a stale API12 of the input replaced
C2_Witness ==
    /\ Returned("generate_api_columns")
    /\ ~HasCol(NormIn, API14)
    /\ HasCol(NormIn, API12)
    /\ RawId(NormIn, 1) # NULL
    /\ ~Signed(RawId(NormIn, 1))
    /\ Len(RawId(NormIn, 1)) = 3
    /\ Cell(NormOut, 1, API14) = Zeros(11) \o RawId(NormIn, 1)
    /\ Cell(NormOut, 1, API12) # Cell(NormIn, 1, API12)

\* C3: an API or APINumber value of 14 or more characters becomes API14 as
\* it is, neither padded nor cut, in the pandas and in the Snowpark variant.
C3_LongUsedAsIs ==
    (Returned("generate_api_columns") /\ ~HasCol(NormIn, API14)) =>
        \A r \in 1..NRows(NormIn) :
            LET x == RawIdText(variant, NormIn, r) IN
            (x # NULL /\ Len(x) >= Width14) =>
                Cell(NormOut, r, API14) = x

\* C9 (normaliser): after generate_api_columns returns, the record set the
\* caller passed in is as it was, and the result is another object.
C9_InputNotMutated ==
    Returned("generate_api_columns") =>
        /\ heap[call.args[1]] = call.input[1]
        /\ call.ret # call.args[1]

----------------------------------------------------------------------------
(* Properties of the enrichment joins, checked under SpecJoin *)

JoinOps == {"join_env_columns", "join_rbc_columns"}

SuffixOf(op) == IF op = "join_env_columns" THEN "_env" ELSE "_rbc"

JoinReturned == call.op \in JoinOps /\ call.err = ""

JoinBase == call.input[1]
JoinSec == call.input[2]
JoinOut == heap[call.ret]

\* how many rows of the secondary set match base row r
Matching(r) ==
    Cardinality({i \in 1..NRows(JoinSec) :
        KeyMatch(variant, Cell(JoinBase, r, API14), Cell(JoinSec, i, API14))})

\* the output rows that carry base row r
Copies(r) ==
    {i \in 1..NRows(JoinOut) :
        SubSeq(JoinOut.rows[i], 1, Len(JoinBase.cols)) = JoinBase.rows[r]}

\* the base rows equal to base row r (a base may hold a row twice)
Same(r) == {q \in 1..NRows(JoinBase) : JoinBase.rows[q] = JoinBase.rows[r]}

SecondaryCells(i) ==
    SubSeq(JoinOut.rows[i], Len(JoinBase.cols) + 1, Len(JoinOut.cols))

\* C4: every column of the secondary set other than API14 is renamed to
\* <name>_<suffix> for the join, whether or not the base has a column of
\* that name, and the column names of the joined set are pairwise distinct.
C4_AllSecondaryColumnsSuffixed ==
    JoinReturned =>
        /\ \A i \in 1..Len(JoinSec.cols) :
              JoinSec.cols[i] # API14 =>
                 \E j \in (Len(JoinBase.cols) + 1)..Len(JoinOut.cols) :
                    EndsWith(JoinOut.cols[j],
                             Suffixed(JoinSec.cols[i], SuffixOf(call.op)))
        /\ ~HasDup(JoinOut.cols)

\* the calls i < j of the log that enrich the base with op1 and then the
\* result with op2
Chain(i, j, op1, op2) ==
    /\ i < j
    /\ log[i].op = op1 /\ log[i].err = "" /\ log[i].args[1] = 1
    /\ log[j].op = op2 /\ log[j].err = "" /\ log[j].args[1] = log[i].ret

\* C5: enriching with env then rbc gives the same number of rows and the
\* same set of column names as enriching with rbc then env.
C5_EnrichmentCommutes ==
    \A i, j, k, l \in 1..Len(log) :
        (/\ Chain(i, j, "join_env_columns", "join_rbc_columns")
         /\ Chain(k, l, "join_rbc_columns", "join_env_columns")) =>
            /\ NRows(heap[log[j].ret]) = NRows(heap[log[l].ret])
            /\ ColSet(heap[log[j].ret]) = ColSet(heap[log[l].ret])

\* C7: a left outer join on API14: base row r with m matching secondary
\* rows is in the output max(1, m) times, once with null secondary cells
\* when m = 0 (counted for each of the base rows equal to r); every output
\* row carries a base row; and when no base row has more than one match the
\* output has as many rows as the base.
C7_LeftOuterJoin ==
    JoinReturned =>
        /\ \A r \in 1..NRows(JoinBase) :
              /\ Cardinality(Copies(r)) =
                    Cardinality(Same(r)) * Max(1, Matching(r))
              /\ Matching(r) = 0 =>
                    \A i \in Copies(r) :
                       \A j \in 1..Len(SecondaryCells(i)) :
                          SecondaryCells(i)[j] = NULL
        /\ \A i \in 1..NRows(JoinOut) : \E r \in 1..NRows(JoinBase) :
              i \in Copies(r)
        /\ (\A r \in 1..NRows(JoinBase) : Matching(r) <= 1) =>
              NRows(JoinOut) = NRows(JoinBase)

\* a join has returned whose base has a row with two matches, a row with
\* none and more output rows than base rows
C7_Witness ==
    /\ JoinReturned
    /\ \E r \in 1..NRows(JoinBase) : Matching(r) = 2
    /\ \E r \in 1..NRows(JoinBase) : Matching(r) = 0
    /\ NRows(JoinOut) > NRows(JoinBase)
    /\ Len(JoinSec.cols) > 1

\* C9 (joins): a join leaves both record sets passed in as they were and
\* returns another object
C9_JoinInputsKept ==
    JoinReturned =>
        /\ heap[call.args[1]] = call.input[1]
        /\ heap[call.args[2]] = call.input[2]
        /\ call.ret \notin {call.args[1], call.args[2]}

----------------------------------------------------------------------------
(* Properties of the union, checked under SpecUnion *)

UnionA == call.input[1]
UnionB == call.input[2]
UnionOut == heap[call.ret]

\* the columns only B has, in B's order
OnlyInB == SelectSeq(UnionB.cols, LAMBDA c : c \notin ColSet(UnionA))

CellOrNull(df, r, c) == IF HasCol(df, c) THEN Cell(df, r, c) ELSE NULL

\* C6: the union holds every row of A then every row of B, none removed
\* (|A| + |B| rows), over A's columns followed by the columns only B has,
\* with null in every column the row's own set lacks.
C6_UnionKeepsAllRows ==
    call.op = "union_tables" =>
        /\ call.err = ""
        /\ UnionOut.cols = UnionA.cols \o OnlyInB
        /\ NRows(UnionOut) = NRows(UnionA) + NRows(UnionB)
        /\ \A r \in 1..NRows(UnionOut) : \A i \in 1..Len(UnionOut.cols) :
              UnionOut.rows[r][i] =
                 IF r <= NRows(UnionA)
                 THEN CellOrNull(UnionA, r, UnionOut.cols[i])
                 ELSE CellOrNull(UnionB, r - NRows(UnionA), UnionOut.cols[i])

----------------------------------------------------------------------------
(* Properties of the table names, checked under SpecName *)

\* an optional part of the name is given when it is a non-empty string
Given(x) == x # NULL /\ Len(x) > 0

ExpectedName ==
    IF Given(nm.database) /\ Given(nm.schema)
    THEN nm.database \o <<".">> \o nm.schema \o <<".">> \o nm.table
    ELSE IF Given(nm.schema)
    THEN nm.schema \o <<".">> \o nm.table
    ELSE nm.table

\* C10: build_table_name gives database.schema.table when database and
\* schema are both given, schema.table when only schema is, the table as it
\* is otherwise (a database without a schema is dropped), and the three
\* copies of the function agree on every input.
C10_TableName ==
    /\ \A m \in DOMAIN nmRet : nmRet[m] = ExpectedName
    /\ \A m1, m2 \in DOMAIN nmRet : nmRet[m1] = nmRet[m2]

\* all three copies have answered for a database given without a schema
C10_Witness ==
    /\ DOMAIN nmRet = NameModules
    /\ Given(nm.database)
    /\ nm.schema = NULL
    /\ nmRet["unified"] = nm.table

----------------------------------------------------------------------------
(* Properties of the pipeline, checked under SpecPipe *)

InitialSink ==
    IF cfg.prior
    THEN {[name |-> TargetName(variant, cfg), df |-> OldOutput]}
    ELSE {}

StagesBeforeSave ==
    {Stages(variant)[i] : i \in 1..(Len(Stages(variant)) - 1)}

\* C8: the output is written at most once, replacing what was stored under
\* its name, and only when every stage before it (loading, union,
\* identifier normalisation, derivation and both joins, as the variant has
\* them) has completed without error; after a failed stage the sink is
\* never written and holds what it held before the run.
C8_MaterializeOnceOnSuccess ==
    /\ writes <= 1
    /\ writes = 1 =>
          /\ ~failed
          /\ StagesBeforeSave \subseteq done
          /\ sink = {[name |-> TargetName(variant, cfg),
                      df |-> cur.combined.df]}
    /\ writes = 0 => sink = InitialSink
    /\ failed => (writes = 0 /\ pc = "aborted")

\* a run has replaced an earlier output after all its stages
C8_Witness ==
    /\ writes = 1
    /\ pc = "done"
    /\ cfg.prior
    /\ sink # InitialSink
    /\ {"load", "normalize", "join_env", "join_rbc"} \subseteq done

\* a run that failed in a join, after normalisation, with an earlier output
\* still stored
C8_WitnessFailed ==
    /\ failed
    /\ "normalize" \in done
    /\ cfg.prior
    /\ sink = InitialSink

====
